---- MODULE Spec2Model ----
(***************************************************************************)
(* The client-side target-acquisition protocol of the card game frontend:  *)
(* the two stores `target` and `searchingForTarget` of game.ts, the        *)
(* promise opened by search(), waitForTarget(), and the click handlers and *)
(* subscription handlers that drive them (InGame.svelte, Player.svelte,    *)
(* Game.svelte and the two ability dialogs).                               *)
(*                                                                         *)
(* One step of the model is one task of the browser's event loop (a click  *)
(* or a message pushed on the lobby subscription) together with all the    *)
(* promise continuations it makes runnable: `await tick()` and the         *)
(* continuation of a settled search() run before the next click or push    *)
(* is dispatched.                                                          *)
(***************************************************************************)
EXTENDS Integers, Sequences, FiniteSets, TLC

(* ------------------------------------------------------------------ *)
(* Bounds                                                             *)
(* ------------------------------------------------------------------ *)

\* How many times search() may be entered in one run (each entry leaves a
\* subscriber on `target` for the rest of the run).
MaxRequests == 2

\* How many tasks of the event loop (clicks and pushed messages) one run
\* holds.
MaxTasks == 5

\* The same for a run in which only the hand, the play zones, the
\* snapshot and the mandatory prompt are exercised.
MaxPromptTasks == 6

(* ------------------------------------------------------------------ *)
(* Values                                                             *)
(* ------------------------------------------------------------------ *)

\* The seat of the local user: self = game.players[$user.sub].
SelfIndex == 0

\* FrontendTarget | null | undefined.  All values carry the same fields so
\* that they can be compared; the fields of null/undefined/Player that the
\* code never reads hold fillers.
Null == [kind |-> "null", player_index |-> -1, pile |-> "", card_index |-> -1]

Undefined == [kind |-> "undefined", player_index |-> -1, pile |-> "", card_index |-> -1]

PlayerTarget(p) == [kind |-> "Player", player_index |-> p, pile |-> "", card_index |-> -1]

CardTarget(p, pile, i) == [kind |-> "Card", player_index |-> p, pile |-> pile, card_index |-> i]

\* A value is truthy unless it is null or undefined (`if (!frontendTarget)`).
Truthy(t) == t.kind \notin {"null", "undefined"}

isPlayer(t) == Truthy(t) /\ t.kind = "Player"

isCard(t) == Truthy(t) /\ t.kind = "Card"

\* CardRequiredTarget: the plain strings 'None', 'EnemyCardOrPlayer',
\* 'EnemyCardInCombat', 'Spell', and the objects {CardOfType: [type, team]},
\* {CreatureOfType: [type, team]}.  kind "undefined" is a missing value.
Req(kind) == [kind |-> kind, type |-> ""]

ReqOfType(kind, type) == [kind |-> kind, type |-> type]

isCardOfType(rt) == rt.kind = "CardOfType"

isCreatureTypeCardRequirement(rt) == rt.kind = "CreatureOfType"

\* `if (... && ability.required_target)`: a string or an object is truthy,
\* a missing value is not.
ReqTruthy(rt) == rt.kind \notin {"undefined", ""}

\* CardType is a string ('Creature', ...) or an object ({BasicLand: colour}).
\* `===` on two objects compares references, so a type read out of the
\* requirement never equals an object type read out of the snapshot.
ObjectTypes == {"BasicLand:Green"}

StrictEq(a, b) == a = b /\ a \notin ObjectTypes

\* AbilityDetails (id, required_target, action_type); NoAbility is the
\* undefined of `card.abilities[0]` on a card without abilities.
Ability(id, rt, at) == [id |-> id, required_target |-> rt, action_type |-> at]

NoAbility == Ability(0, Req("undefined"), "undefined")

\* CardWithDetails: card.card_type, card.creature_type and the ability the
\* click handlers read from it.
CardOf(ct, crt, ab) == [card_type |-> ct, creature_type |-> crt, ability |-> ab]

(* ------------------------------------------------------------------ *)
(* Inputs: the abilities, cards and snapshots the server may push     *)
(* ------------------------------------------------------------------ *)

\* The hand of the local player (self.hand), the same in every snapshot:
\* an instant that needs a card of type Creature, an instant that needs a
\* spell, a non-instant that names a requirement, an instant without one.
HandCards ==
  << CardOf("Instant", "", Ability(1, ReqOfType("CardOfType", "Creature"), "Instant")),
     CardOf("Instant", "", Ability(2, Req("Spell"), "Instant")),
     CardOf("Creature", "Human", Ability(3, Req("EnemyCardOrPlayer"), "Summon")),
     CardOf("Instant", "", Ability(4, Req("None"), "Instant")) >>

\* The cards a play zone (public_info.cards_in_play) holds, by position.
CreatureCard == CardOf("Creature", "Human", Ability(5, Req("EnemyCardOrPlayer"), "Attach"))

LandCard == CardOf("BasicLand:Green", "", Ability(6, Req("None"), "Tap"))

\* The card a spell zone (public_info.spells) holds.
SpellCard == CardOf("Sorcery", "", Ability(2, Req("Spell"), "Instant"))

\* PlayerState of seat p with the given zones.
PlayerOf(p, inPlay, spells) == [player_index |-> p, cards_in_play |-> inPlay, spells |-> spells]

\* An entry of public_info.attacks, reduced to its attacker.
Attacker(p, pile, i) == [pile |-> pile, card_index |-> i, player_index |-> p]

\* GameState: players (keyed here by seat), the local hand, the attack list.
GameOf(seats, inPlay, spells, attacks) ==
  [players |-> [p \in seats |-> PlayerOf(p, inPlay, spells)],
   hand |-> HandCards,
   attacks |-> attacks]

\* Two seats, one creature each, nothing on the stack, no combat.
G0 == GameOf({0, 1}, << CreatureCard >>, << >>, {})

\* A land and a spell have arrived and seat 1's creature attacks.
G1 == GameOf({0, 1}, << CreatureCard, LandCard >>, << SpellCard >>, {Attacker(1, "Play", 0)})

\* Only the local player is seated.
G2 == GameOf({0}, << CreatureCard >>, << >>, {})

\* The snapshots an Updated message may carry.
Snapshots == {G0, G1, G2}

\* The abilities an AskExecuteAbility / MandatoryExecuteAbility message
\* may carry (ExecuteAbility.details).
OptionalAbilities ==
  { Ability(7, ReqOfType("CreatureOfType", "Human"), "Triggered"),
    Ability(8, Req("None"), "Triggered") }

MandatoryAbilities ==
  { Ability(9, Req("EnemyCardInCombat"), "Triggered"),
    Ability(8, Req("None"), "Triggered") }

\* The narrations a TurnMessages message may carry (LobbyTurnMessage), and
\* the undefined `turnMessage` holds before the first one.
TurnMessages == {"turn of seat 0", "turn of seat 1"}

NoTurnMessage == "undefined"

(* ------------------------------------------------------------------ *)
(* State                                                              *)
(* ------------------------------------------------------------------ *)

VARIABLES
  game,               \* the game_state prop: the latest snapshot pushed
  turnMessage,        \* `turnMessage` of Game.svelte, handed to InGame
  target,             \* the value of the store `target`
  searchingForTarget, \* the value of the store `searchingForTarget`
  searching,          \* $searchingForTarget as the Player components see it
  queueStuck,         \* the stores' subscriber queue was left non-empty
  requests,           \* one entry per search() entered, in subscription order
  askOptionalAbility, \* the value of the store `askOptionalAbility` (stores/dialog.ts)
  mandatoryStore,     \* the value of the store `mandatoryAbility` (stores/dialog.ts)
  optionalAbility,    \* `ability` of cast-optional-ability.svelte
  optionalOpen,       \* `open` of cast-optional-ability.svelte
  mandatoryAbility,   \* `ability` of cast-mandatory-ability.svelte
  mandatoryOpen,      \* `open` of cast-mandatory-ability.svelte
  outbox,             \* the mutations the last task sent, in order
  refused,            \* which of them (by position) the remote facade rejects
  notices,            \* the toasts the last task raised
  fault,              \* the last task's handler ended in an uncaught TypeError
  submitted,          \* the value the last task's click passed to target.set
  tasks               \* how many more tasks (clicks, pushed messages) the run holds

vars ==
  << game, turnMessage, target, searchingForTarget, searching, queueStuck, requests,
     askOptionalAbility, mandatoryStore,
     optionalAbility, optionalOpen, mandatoryAbility, mandatoryOpen,
     outbox, refused, notices, fault, submitted, tasks >>

(* ------------------------------------------------------------------ *)
(* game.ts: the subscriber search() leaves on `target`                *)
(* ------------------------------------------------------------------ *)

\* Object.values(game.players).find(p => p.player_index == ...) found one.
HasPlayer(g, t) == t.player_index \in DOMAIN g.players

\* `pile` of the subscriber: the spell zone, the play zone, or (for the
\* Hand pile) nothing.  Read only where HasPlayer holds.
PileOf(g, t) ==
  IF t.pile = "Spell" THEN g.players[t.player_index].spells
  ELSE IF t.pile = "Play" THEN g.players[t.player_index].cards_in_play
  ELSE << >>

\* game.public_info.attacks.find(...): some attacker equals the candidate.
IsAttacker(g, t) ==
  \E x \in g.attacks :
     /\ x.pile = t.pile
     /\ x.card_index = t.card_index
     /\ x.player_index = t.player_index

\* The last statement of the subscriber: reject when both the pushed
\* value and the requirement are truthy, else leave the promise alone.
RejectOrIgnore(ability, t) ==
  IF Truthy(t) /\ ReqTruthy(ability.required_target) THEN "reject" ELSE "none"

\* The `if (pile)` block: the card at card_index is read for a
\* CreatureOfType or CardOfType requirement; reading `.card` of a missing
\* entry throws.
PileOutcome(ability, g, t) ==
  LET pile == PileOf(g, t)
      rt == ability.required_target
      inRange == t.card_index + 1 \in DOMAIN pile
  IN IF isCreatureTypeCardRequirement(rt)
     THEN IF ~inRange THEN "throw"
          ELSE IF StrictEq(rt.type, pile[t.card_index + 1].creature_type) THEN "resolve"
          ELSE RejectOrIgnore(ability, t)
     ELSE IF isCardOfType(rt)
     THEN IF ~inRange THEN "throw"
          ELSE IF StrictEq(rt.type, pile[t.card_index + 1].card_type) THEN "resolve"
          ELSE RejectOrIgnore(ability, t)
     ELSE RejectOrIgnore(ability, t)

\* What the subscriber of one search(ability, game) does with a value t
\* pushed through `target`: "resolve" (resolve(t)), "reject", "none"
\* (returns without settling) or "throw" (a TypeError leaves the callback).
SearchOutcome(ability, g, t) ==
  IF isCard(t)
  THEN IF t.pile \in {"Spell", "Play"} /\ ~HasPlayer(g, t) THEN "throw"
       ELSE IF ability.required_target.kind = "Spell" /\ t.pile = "Spell" THEN "resolve"
       ELSE IF ability.required_target.kind = "EnemyCardInCombat" /\ IsAttacker(g, t)
            THEN "resolve"
       ELSE IF t.pile \in {"Spell", "Play"} THEN PileOutcome(ability, g, t)
       ELSE RejectOrIgnore(ability, t)
  ELSE IF isPlayer(t)
  THEN IF ability.required_target.kind = "EnemyCardOrPlayer" THEN "resolve"
       ELSE RejectOrIgnore(ability, t)
  ELSE RejectOrIgnore(ability, t)

\* Settle by a subscriber that strikes the attack off its snapshot as it
\* resolves.
Settle_ConsumesAttack(r, outcome, t) ==
  IF r.status # "pending" THEN r
  ELSE IF outcome = "resolve"
       THEN [r EXCEPT !.status = "resolved", !.response = t, !.game.attacks = {}]
  ELSE IF outcome = "reject" THEN [r EXCEPT !.status = "rejected"]
  ELSE r

\* A promise settles once: resolve and reject on a settled one do nothing.
Settle(r, outcome, t) ==
  IF r.status # "pending" THEN r
  ELSE IF outcome = "resolve" THEN [r EXCEPT !.status = "resolved", !.response = t]
  ELSE IF outcome = "reject" THEN [r EXCEPT !.status = "rejected"]
  ELSE r

(* ------------------------------------------------------------------ *)
(* svelte/store writable(): set() and its subscribers                 *)
(* ------------------------------------------------------------------ *)

\* safe_not_equal(a, b): an object always counts as changed.
SafeNotEqual(a, b) == a # b \/ Truthy(a)

\* set() runs the subscribers in subscription order, every search() ever
\* entered being one (none is ever unsubscribed).  A subscriber that
\* throws ends the loop: the later ones are not called.
RECURSIVE RunSubscribers(_, _, _)
RunSubscribers(rs, t, k) ==
  IF k > Len(rs) THEN [requests |-> rs, thrown |-> FALSE]
  ELSE LET outcome == SearchOutcome(rs[k].ability, rs[k].game, t)
       IN IF outcome = "throw" THEN [requests |-> rs, thrown |-> TRUE]
          ELSE RunSubscribers([rs EXCEPT ![k] = Settle(rs[k], outcome, t)], t, k + 1)

\* The stores as one record st = [target, flag, view, stuck, requests,
\* thrown].  target.set(t): nothing when the value is unchanged; the
\* value is stored; the subscribers run unless the shared subscriber
\* queue was left non-empty by an earlier throw, in which case the new
\* entries are queued behind it and never run.
targetSet(st, t) ==
  IF ~SafeNotEqual(st.target, t) THEN st
  ELSE IF st.stuck \/ Len(st.requests) = 0 THEN [st EXCEPT !.target = t]
  ELSE LET run == RunSubscribers(st.requests, t, 1)
       IN [st EXCEPT !.target = t,
                     !.requests = run.requests,
                     !.stuck = run.thrown,
                     !.thrown = run.thrown]

\* searchingForTarget.set(b): the components' $searchingForTarget follows
\* through their subscription, which the same queue serves.
searchingSet(st, b) ==
  IF st.flag = b THEN st
  ELSE [st EXCEPT !.flag = b, !.view = IF st.stuck THEN @ ELSE b]

\* The stores as the state holds them.
Stores ==
  [target |-> target, flag |-> searchingForTarget, view |-> searching,
   stuck |-> queueStuck, requests |-> requests, thrown |-> FALSE]

(* ------------------------------------------------------------------ *)
(* game.ts: waitForTarget()                                           *)
(* ------------------------------------------------------------------ *)

\* ReturnsNull without the test of the requirement against 'None'.
ReturnsNull_NoneNotTested(ability, forPlay) ==
  \/ ability = NoAbility
  \/ (ability.action_type # "Instant" /\ forPlay)

\* waitForTarget returns null at once: no ability, requirement 'None',
\* or (from the hand) an ability that is not an Instant.
ReturnsNull(ability, forPlay) ==
  \/ ability = NoAbility
  \/ ability.required_target.kind = "None"
  \/ (ability.action_type # "Instant" /\ forPlay)

\* The entry search() adds for its caller: the ability and the snapshot
\* are the ones the caller passed, held by the subscriber's closure.
\* `alone` records that no other request was pending on entry.
Request(origin, index, ability, g) ==
  [origin |-> origin, index |-> index, ability |-> ability, game |-> g,
   status |-> "pending", response |-> Null, sent |-> FALSE, clears |-> 0,
   alone |-> \A j \in DOMAIN requests : requests[j].status # "pending"]

\* search() as it subscribes: target.subscribe calls the new subscriber
\* at once with the value the store holds, before any set() reaches it.
Subscribe(st, req) ==
  [st EXCEPT !.requests =
     Append(@, Settle(req, SearchOutcome(req.ability, req.game, st.target), st.target))]

\* BeginWait without the two target.set(null): the slot keeps what an
\* earlier click left in it.
BeginWait_SlotKept(st, req) == Subscribe(searchingSet(st, TRUE), req)

\* waitForTarget up to the suspension in search(): target.set(null),
\* searchingForTarget.set(true), tick, then search() resets `target` and
\* subscribes.
BeginWait(st, req) ==
  LET st1 == searchingSet(targetSet(st, Null), TRUE)
      st2 == targetSet(st1, Null)
  IN Subscribe(st2, req)

\* waitForTarget after search() resolved: searchingForTarget.set(false),
\* target.set(null); the response goes back to the caller.
EndWait(st, k) ==
  LET st1 == targetSet(searchingSet(st, FALSE), Null)
  IN [st1 EXCEPT !.requests[k].clears = @ + 1]

(* ------------------------------------------------------------------ *)
(* The callers of waitForTarget and the mutations they send           *)
(* ------------------------------------------------------------------ *)

\* client.mutation([op, {...}]) reduced to what the handlers decide.
Mutation(op, index, t, abilityId, response) ==
  [op |-> op, index |-> index, target |-> t, ability_id |-> abilityId,
   response |-> response]

\* InGame.svelte executePlayCard.
PlayMutation(index, t) == Mutation("lobby.play_card", index, t, 0, "")

\* Player.svelte executeAction: `target || null`.
ActionMutation(index, actionType, t) ==
  Mutation(IF actionType = "Attach" THEN "lobby.attach_card" ELSE "lobby.action_card",
           index, IF Truthy(t) THEN t ELSE Null, 0, "")

\* The dialogs read ability.details.id when the mutation is built.
OptionalMutation(abilityNow, t) ==
  Mutation("lobby.respond_optional_ability", 0, t, abilityNow.id, "true")

MandatoryMutation(abilityNow, t) ==
  Mutation("lobby.respond_mandatory_ability", 0, t, abilityNow.id, "")

\* FailWait as a `finally` around the await would make it: the flag and
\* the slot are reset on rejection too.
FailWait_ResetsAnyway(st, k) == EndWait(st, k)

\* waitForTarget after search() rejected: the await throws, so the two
\* set() calls behind it do not run and the stores stay as they are.
FailWait(st, k) == st

\* What the caller of request r sends once waitForTarget returned t.
MutationOf(r, t) ==
  IF r.origin = "play" THEN PlayMutation(r.index, t)
  ELSE IF r.origin \in {"action", "spell"}
       THEN ActionMutation(r.index, r.ability.action_type, t)
  ELSE IF r.origin = "optional" THEN OptionalMutation(optionalAbility, t)
  ELSE MandatoryMutation(mandatoryAbility, t)

\* AfterReject of a caller that swallows the rejection and goes on with
\* a null target.
AfterReject_SendsWithNull(r) == << MutationOf(r, Null) >>

\* The caller of request r after its search() rejected: waitForTarget
\* throws out of the await, so nothing after it runs.  actionCard catches
\* and toasts; the other callers leave the rejection unhandled.
\* The result is the sequence of mutations the caller sends.
AfterReject(r) == << >>

\* The toast of the catch in actionCard.
RejectNotice(r) == IF r.origin = "action" THEN {"error"} ELSE {}

\* AfterResolve of a caller that sends its mutation a second time.
AfterResolve_SendsTwice(r, t) == << MutationOf(r, t), MutationOf(r, t) >>

\* The caller of request r after its search() resolved with t.
AfterResolve(r, t) == << MutationOf(r, t) >>

\* The continuations one task makes runnable, in subscription order: for
\* every request the task settled, the rest of waitForTarget and of its
\* caller.  acc = [st, outbox, notices]; old holds the requests before.
RECURSIVE Continuations(_, _, _)
Continuations(acc, old, k) ==
  IF k > Len(old) THEN acc
  ELSE LET r == acc.st.requests[k]
       IN IF old[k].status # "pending" \/ r.status = "pending"
          THEN Continuations(acc, old, k + 1)
          ELSE IF r.status = "resolved"
          THEN LET st1 == EndWait(acc.st, k)
                   sentNow == AfterResolve(r, r.response)
               IN Continuations(
                    [st |-> [st1 EXCEPT !.requests[k].sent = (sentNow # << >>)],
                     outbox |-> acc.outbox \o sentNow,
                     notices |-> acc.notices],
                    old, k + 1)
          ELSE LET sentNow == AfterReject(r)
               IN Continuations(
                    [st |-> [FailWait(acc.st, k) EXCEPT
                               !.requests[k].sent = (sentNow # << >>)],
                     outbox |-> acc.outbox \o sentNow,
                     notices |-> acc.notices \cup RejectNotice(r)],
                    old, k + 1)

\* The caller of client.mutation(m) when the facade rejects it: the
\* try/catch of executePlayCard and executeAction toasts; the dialogs
\* await the mutation bare, so the rejection stays unhandled.  Nothing is
\* sent again and waitForTarget is not called again.
AfterRefusal(m) ==
  IF m.op \in {"lobby.play_card", "lobby.attach_card", "lobby.action_card"}
  THEN {"remote error"}
  ELSE {}

\* The state a task leaves behind.  The facade's answer to each mutation
\* is the server's choice; the rest of the sending handler only reacts to
\* it with a toast, which is counted among the task's notices.
Commit(st, out, nts, sub) ==
  /\ tasks > 0
  /\ tasks' = tasks - 1
  /\ target' = st.target
  /\ searchingForTarget' = st.flag
  /\ searching' = st.view
  /\ queueStuck' = st.stuck
  /\ requests' = st.requests
  /\ outbox' = out
  /\ \E rf \in SUBSET DOMAIN out :
        /\ refused' = rf
        /\ notices' = nts \cup UNION {AfterRefusal(out[j]) : j \in rf}
  /\ fault' = st.thrown
  /\ submitted' = sub

\* A click handler calls target.set(t): the subscribers run, then the
\* continuations of the promises they settled.
Submit(t) ==
  LET st1 == targetSet(Stores, t)
      fin == Continuations([st |-> st1, outbox |-> << >>, notices |-> {}], requests, 1)
  IN Commit(fin.st, fin.outbox, fin.notices, t)

\* A handler calls waitForTarget(ability, game, forPlay) for a request
\* that suspends: the task ends with the request pending.
Open(req) ==
  /\ Len(requests) < MaxRequests
  /\ Commit(BeginWait(Stores, req), << >>, {"info"}, Null)

\* A handler whose waitForTarget returned null sends its mutation at once.
SendNow(m) == Commit(Stores, << m >>, {}, Null)

(* ------------------------------------------------------------------ *)
(* Init                                                               *)
(* ------------------------------------------------------------------ *)

\* InGame is mounted with the first snapshot; writable() holds undefined,
\* writable(false) holds false; no dialog has received a prompt.
Init ==
  /\ game \in Snapshots
  /\ turnMessage = NoTurnMessage
  /\ target = Undefined
  /\ searchingForTarget = FALSE
  /\ searching = FALSE
  /\ queueStuck = FALSE
  /\ requests = << >>
  /\ askOptionalAbility = NoAbility
  /\ mandatoryStore = NoAbility
  /\ optionalAbility = NoAbility
  /\ optionalOpen = FALSE
  /\ mandatoryAbility = NoAbility
  /\ mandatoryOpen = FALSE
  /\ outbox = << >>
  /\ refused = {}
  /\ notices = {}
  /\ fault = FALSE
  /\ submitted = Null
  /\ tasks = MaxTasks

dialogs ==
  << askOptionalAbility, mandatoryStore,
     optionalAbility, optionalOpen, mandatoryAbility, mandatoryOpen >>

(* ------------------------------------------------------------------ *)
(* Clicks                                                             *)
(* ------------------------------------------------------------------ *)

\* playCard calling waitForTarget without forPlay, as the other callers do.
playCard_NotForPlay(i) ==
  LET ability == game.hand[i + 1].ability
  IN /\ IF ReturnsNull(ability, FALSE)
        THEN SendNow(PlayMutation(i, Null))
        ELSE Open(Request("play", i, ability, game))
     /\ UNCHANGED << game, turnMessage, dialogs >>

\* InGame.svelte playCard(index): a click on the hand card at `index`.
playCard(i) ==
  LET ability == game.hand[i + 1].ability
  IN /\ IF ReturnsNull(ability, TRUE)
        THEN SendNow(PlayMutation(i, Null))
        ELSE Open(Request("play", i, ability, game))
     /\ UNCHANGED << game, turnMessage, dialogs >>

\* actionCard without the test of the owner against self: any seat's card
\* starts an action.
actionCard_AnyOwner(p, i) ==
  LET card == game.players[p].cards_in_play[i + 1]
  IN /\ IF searching
        THEN Submit(CardTarget(p, "Play", i))
        ELSE IF ReturnsNull(card.ability, FALSE)
        THEN SendNow(ActionMutation(i, card.ability.action_type, Null))
        ELSE Open(Request("action", i, card.ability, game))
     /\ UNCHANGED << game, turnMessage, dialogs >>

\* Player.svelte actionCard(index) of the Player component of seat p: a
\* click on the card at `index` of that seat's play zone.
actionCard(p, i) ==
  LET card == game.players[p].cards_in_play[i + 1]
  IN /\ IF searching
        THEN Submit(CardTarget(p, "Play", i))
        ELSE IF p = SelfIndex
        THEN IF ReturnsNull(card.ability, FALSE)
             THEN SendNow(ActionMutation(i, card.ability.action_type, Null))
             ELSE Open(Request("action", i, card.ability, game))
        ELSE Commit(Stores, << >>, {}, Null)
     /\ UNCHANGED << game, turnMessage, dialogs >>

\* Player.svelte actionSpell(index): a click on the card at `index` of
\* seat p's spell zone.  Outside target mode the handler reads
\* cards_in_play[index]; with no card there waitForTarget returns null and
\* executeAction's read of card.action_type is caught ('Unknown error!').
actionSpell(p, i) ==
  LET inPlay == game.players[p].cards_in_play
  IN /\ IF searching
        THEN Submit(CardTarget(p, "Spell", i))
        ELSE IF p = SelfIndex
        THEN IF i + 1 \notin DOMAIN inPlay
             THEN Commit(Stores, << >>, {"error"}, Null)
             ELSE IF ReturnsNull(inPlay[i + 1].ability, FALSE)
             THEN SendNow(ActionMutation(i, inPlay[i + 1].ability.action_type, Null))
             ELSE Open(Request("spell", i, inPlay[i + 1].ability, game))
        ELSE Commit(Stores, << >>, {}, Null)
     /\ UNCHANGED << game, turnMessage, dialogs >>

\* Player.svelte setPlayerTarget(player): a click on seat p's name.
setPlayerTarget(p) ==
  /\ Submit(PlayerTarget(p))
  /\ UNCHANGED << game, turnMessage, dialogs >>

(* ------------------------------------------------------------------ *)
(* Game.svelte: messages pushed on lobby.subscribe                    *)
(* ------------------------------------------------------------------ *)

\* turnMessageReceived(message): turnMessage = message.
turnMessageReceived(m) ==
  /\ m # turnMessage
  /\ turnMessage' = m
  /\ Commit(Stores, << >>, {}, Null)
  /\ UNCHANGED << game, dialogs >>

\* updated as a handler that also abandons the requests in flight.
updated_RejectsPending(g) ==
  /\ g # game
  /\ game' = g
  /\ Commit([Stores EXCEPT !.requests =
               [k \in DOMAIN requests |-> Settle(requests[k], "reject", Null)]],
            << >>, {}, Null)
  /\ UNCHANGED << turnMessage, dialogs >>

\* updated(data): lobby = data; the components get the new game_state.
updated(g) ==
  /\ g # game
  /\ game' = g
  /\ Commit(Stores, << >>, {}, Null)
  /\ UNCHANGED << turnMessage, dialogs >>

\* askExecuteAbility: askOptionalAbility.set(message).  The message is an
\* object, so the store always notifies: the dialog's subscriber keeps
\* the message and opens, unless the stores' subscriber queue is stuck,
\* in which case the call is queued behind it and never made.
askExecuteAbility(a) ==
  /\ askOptionalAbility' = a
  /\ optionalAbility' = IF queueStuck THEN optionalAbility ELSE a
  /\ optionalOpen' = IF queueStuck THEN optionalOpen ELSE TRUE
  /\ Commit(Stores, << >>, {}, Null)
  /\ UNCHANGED << game, turnMessage, mandatoryStore, mandatoryAbility, mandatoryOpen >>

\* askMandatoryAbility writing both dialog stores.
askMandatoryAbility_SetsBoth(a) ==
  /\ mandatoryStore' = a
  /\ askOptionalAbility' = a
  /\ mandatoryAbility' = IF queueStuck THEN mandatoryAbility ELSE a
  /\ mandatoryOpen' = IF queueStuck THEN mandatoryOpen ELSE TRUE
  /\ Commit(Stores, << >>, {}, Null)
  /\ UNCHANGED << game, turnMessage, optionalAbility, optionalOpen >>

\* askMandatoryAbility: mandatoryAbility.set(message), likewise.
askMandatoryAbility(a) ==
  /\ mandatoryStore' = a
  /\ mandatoryAbility' = IF queueStuck THEN mandatoryAbility ELSE a
  /\ mandatoryOpen' = IF queueStuck THEN mandatoryOpen ELSE TRUE
  /\ Commit(Stores, << >>, {}, Null)
  /\ UNCHANGED << game, turnMessage, askOptionalAbility, optionalAbility, optionalOpen >>

(* ------------------------------------------------------------------ *)
(* The ability dialogs                                                *)
(* ------------------------------------------------------------------ *)

\* cast-optional-ability.svelte yes(): Continue on the open dialog.
optionalYes ==
  /\ optionalOpen
  /\ optionalAbility # NoAbility
  /\ optionalOpen' = FALSE
  /\ IF ReturnsNull(optionalAbility, FALSE)
     THEN SendNow(OptionalMutation(optionalAbility, Null))
     ELSE Open(Request("optional", 0, optionalAbility, game))
  /\ UNCHANGED << game, turnMessage, askOptionalAbility, mandatoryStore,
                  optionalAbility, mandatoryAbility, mandatoryOpen >>

\* cast-optional-ability.svelte no(): Cancel on the open dialog.
optionalNo ==
  /\ optionalOpen
  /\ optionalAbility # NoAbility
  /\ optionalOpen' = FALSE
  /\ SendNow(OptionalMutation(optionalAbility, Null))
  /\ UNCHANGED << game, turnMessage, askOptionalAbility, mandatoryStore,
                  optionalAbility, mandatoryAbility, mandatoryOpen >>

\* cast-mandatory-ability.svelte yes(): Continue on the open dialog.
mandatoryYes ==
  /\ mandatoryOpen
  /\ mandatoryAbility # NoAbility
  /\ mandatoryOpen' = FALSE
  /\ IF ReturnsNull(mandatoryAbility, FALSE)
     THEN SendNow(MandatoryMutation(mandatoryAbility, Null))
     ELSE Open(Request("mandatory", 0, mandatoryAbility, game))
  /\ UNCHANGED << game, turnMessage, askOptionalAbility, mandatoryStore,
                  optionalAbility, optionalOpen, mandatoryAbility >>

(* ------------------------------------------------------------------ *)
(* Specification                                                      *)
(* ------------------------------------------------------------------ *)

\* What the page shows and so what can be clicked.
Seated == DOMAIN game.players

HandIndices == 0 .. Len(game.hand) - 1

PlayIndices(p) == 0 .. Len(game.players[p].cards_in_play) - 1

SpellIndices(p) == 0 .. Len(game.players[p].spells) - 1

Next ==
  \/ \E i \in HandIndices : playCard(i)
  \/ \E p \in Seated : \E i \in PlayIndices(p) : actionCard(p, i)
  \/ \E p \in Seated : \E i \in SpellIndices(p) : actionSpell(p, i)
  \/ \E p \in Seated : setPlayerTarget(p)
  \/ \E g \in Snapshots : updated(g)
  \/ \E a \in OptionalAbilities : askExecuteAbility(a)
  \/ \E a \in MandatoryAbilities : askMandatoryAbility(a)
  \/ \E m \in TurnMessages : turnMessageReceived(m)
  \/ optionalYes
  \/ optionalNo
  \/ mandatoryYes

Spec == Init /\ [][Next]_vars

\* The page of a game that sends no optional prompt and no narration and
\* whose user clicks hand cards and cards in play only.
PromptInit ==
  /\ game \in Snapshots
  /\ turnMessage = NoTurnMessage
  /\ target = Undefined
  /\ searchingForTarget = FALSE
  /\ searching = FALSE
  /\ queueStuck = FALSE
  /\ requests = << >>
  /\ askOptionalAbility = NoAbility
  /\ mandatoryStore = NoAbility
  /\ optionalAbility = NoAbility
  /\ optionalOpen = FALSE
  /\ mandatoryAbility = NoAbility
  /\ mandatoryOpen = FALSE
  /\ outbox = << >>
  /\ refused = {}
  /\ notices = {}
  /\ fault = FALSE
  /\ submitted = Null
  /\ tasks = MaxPromptTasks

PromptNext ==
  \/ \E i \in HandIndices : playCard(i)
  \/ \E p \in Seated : \E i \in PlayIndices(p) : actionCard(p, i)
  \/ \E g \in Snapshots : updated(g)
  \/ \E a \in MandatoryAbilities : askMandatoryAbility(a)
  \/ mandatoryYes

PromptSpec == PromptInit /\ [][PromptNext]_vars

\* Cards in play whose ability carries a requirement outside the six
\* variants the subscriber tests for: a missing required_target, and a
\* string none of the comparisons names.
BlankCard == CardOf("Artifact", "", Ability(10, Req("undefined"), "Tap"))

OddCard == CardOf("Artifact", "", Ability(11, Req("AllyCard"), "Tap"))

\* A card in play whose ability asks for a card of an object type (a
\* basic land of one colour).
SeekerCard ==
  CardOf("Artifact", "", Ability(12, ReqOfType("CardOfType", "BasicLand:Green"), "Tap"))

\* Two seats holding those cards and a land, one spell on each stack, no
\* combat.
G3 == GameOf({0, 1}, << BlankCard, OddCard, SeekerCard, LandCard >>, << SpellCard >>, {})

\* The page of a game whose snapshots are G3 and G0, that sends no prompt
\* and no narration, and whose user clicks the Player components only
\* (cards in play, spells, player names).
VariantInit ==
  /\ game = G3
  /\ turnMessage = NoTurnMessage
  /\ target = Undefined
  /\ searchingForTarget = FALSE
  /\ searching = FALSE
  /\ queueStuck = FALSE
  /\ requests = << >>
  /\ askOptionalAbility = NoAbility
  /\ mandatoryStore = NoAbility
  /\ optionalAbility = NoAbility
  /\ optionalOpen = FALSE
  /\ mandatoryAbility = NoAbility
  /\ mandatoryOpen = FALSE
  /\ outbox = << >>
  /\ refused = {}
  /\ notices = {}
  /\ fault = FALSE
  /\ submitted = Null
  /\ tasks = MaxTasks

VariantNext ==
  \/ \E p \in Seated : \E i \in PlayIndices(p) : actionCard(p, i)
  \/ \E p \in Seated : \E i \in SpellIndices(p) : actionSpell(p, i)
  \/ \E p \in Seated : setPlayerTarget(p)
  \/ \E g \in {G0, G3} : updated(g)

VariantSpec == VariantInit /\ [][VariantNext]_vars

(* ------------------------------------------------------------------ *)
(* Properties                                                         *)
(* ------------------------------------------------------------------ *)

Pending(k) == requests[k].status = "pending"

\* The last task was a click that submitted a candidate.
Submitting == Truthy(submitted')

\* A Card candidate denotes a card of snapshot g: the seat exists and the
\* zone holds an entry at card_index.
Resolves(g, c) ==
  /\ isCard(c)
  /\ c.pile \in {"Spell", "Play"}
  /\ HasPlayer(g, c)
  /\ c.card_index + 1 \in DOMAIN PileOf(g, c)

ResolvedCard(g, c) == PileOf(g, c)[c.card_index + 1]

\* The matching table of the specification: candidate c satisfies
\* requirement rt, cards being resolved against snapshot g.
Satisfies(rt, g, c) ==
  \/ rt.kind = "EnemyCardOrPlayer" /\ isPlayer(c)
  \/ rt.kind = "EnemyCardInCombat" /\ isCard(c) /\ IsAttacker(g, c)
  \/ rt.kind = "CardOfType" /\ Resolves(g, c) /\ ResolvedCard(g, c).card_type = rt.type
  \/ rt.kind = "CreatureOfType" /\ Resolves(g, c)
       /\ ResolvedCard(g, c).creature_type = rt.type
  \/ rt.kind = "Spell" /\ isCard(c) /\ c.pile = "Spell"

\* C1: a candidate submitted while a request is pending resolves the
\* request with that candidate if and only if it satisfies the matching
\* table; in every other case the request is rejected.
C1_SubmitFollowsTable ==
  [][\A k \in DOMAIN requests :
       (Pending(k) /\ Submitting) =>
         IF Satisfies(requests[k].ability.required_target, game, submitted')
         THEN /\ requests'[k].status = "resolved"
              /\ requests'[k].response = submitted'
         ELSE requests'[k].status = "rejected"]_vars

\* C2: once a second request has been issued, no later candidate resolves
\* the first request: a superseded request never resolves.
C2_SupersededNeverResolves ==
  [][\A k \in DOMAIN requests :
       (Pending(k) /\ k < Len(requests)) => requests'[k].status # "resolved"]_vars

\* C3: at most one target request is pending at any time.
C3_AtMostOnePending ==
  Cardinality({k \in DOMAIN requests : Pending(k)}) <= 1

\* C4: a candidate is validated against the snapshot current when it is
\* submitted: whenever the candidate reaches a pending request without a
\* fault, the request resolves exactly if the candidate matches the
\* latest snapshot, also when that differs from the one of request time.
C4_ValidatedAgainstLatest ==
  [][\A k \in DOMAIN requests :
       (Pending(k) /\ Submitting /\ ~queueStuck /\ ~fault') =>
         (requests'[k].status = "resolved"
            <=> Satisfies(requests[k].ability.required_target, game, submitted'))]_vars

\* C5: a rejected target request never leads to a mutation: the action
\* that issued it sends nothing.
C5_RejectedSendsNothing ==
  \A k \in DOMAIN requests :
     requests[k].status = "rejected" => ~requests[k].sent /\ requests[k].response = Null

C5_Witness ==
  /\ \E k \in DOMAIN requests :
        requests[k].status = "rejected" /\ requests[k].origin = "action"
  /\ \E k \in DOMAIN requests :
        requests[k].status = "rejected" /\ requests[k].origin = "mandatory"
  /\ Truthy(submitted)

\* C6: a candidate that does not match the pending requirement rejects
\* the request, and a rejected request stays rejected: no later candidate
\* resolves it.
C6_MismatchRejectsForGood ==
  [][\A k \in DOMAIN requests :
       /\ (Pending(k) /\ Submitting
             /\ ~Satisfies(requests[k].ability.required_target, game, submitted')
             /\ ~Satisfies(requests[k].ability.required_target, requests[k].game,
                           submitted'))
            => requests'[k].status = "rejected"
       /\ requests[k].status = "rejected" => requests'[k].status = "rejected"]_vars

\* C7: a Card candidate whose indices do not resolve against the snapshot
\* the request is validated with is a non-match for every requirement:
\* the request is rejected and the submission raises no fault.
C7_StaleReferenceRejects ==
  [][\A k \in DOMAIN requests :
       (Pending(k) /\ Submitting /\ isCard(submitted')
          /\ ~Resolves(requests[k].game, submitted'))
         => requests'[k].status = "rejected" /\ ~fault']_vars

\* C8: waitForTarget with an ability whose requirement is None returns
\* null at once: the caller's mutation goes out with target null in the
\* same task, no request is opened, and neither searchingForTarget nor
\* the candidate slot is written.
NoneStep ==
  \/ \E i \in HandIndices :
        game.hand[i + 1].ability.required_target.kind = "None" /\ playCard(i)
  \/ \E i \in PlayIndices(SelfIndex) :
        /\ ~searching
        /\ game.players[SelfIndex].cards_in_play[i + 1].ability.required_target.kind = "None"
        /\ actionCard(SelfIndex, i)
  \/ optionalAbility.required_target.kind = "None" /\ optionalYes
  \/ mandatoryAbility.required_target.kind = "None" /\ mandatoryYes

C10_SubmitWithoutRequestIsNoOp ==
  [][(Submitting /\ \A k \in DOMAIN requests : ~Pending(k)) =>
       /\ requests' = requests
       /\ ~fault'
       /\ outbox' = << >>
       /\ searchingForTarget' = searchingForTarget]_vars

\* C11: a click on a hand card whose ability has requirement None or is
\* not an Instant opens no request and sends lobby.play_card with target
\* null in the same task; a click on any other hand card opens a pending
\* request for that card and sends nothing in that task.
C11_PlayOpensUnlessNoneOrNotInstant ==
  [][\A i \in HandIndices :
       playCard(i) =>
         LET a == game.hand[i + 1].ability
         IN IF a.required_target.kind = "None" \/ a.action_type # "Instant"
            THEN /\ requests' = requests
                 /\ searchingForTarget' = searchingForTarget
                 /\ outbox' = << PlayMutation(i, Null) >>
            ELSE /\ Len(requests') = Len(requests) + 1
                 /\ requests'[Len(requests')] = Request("play", i, a, game)
                 /\ searchingForTarget'
                 /\ outbox' = << >>]_vars

C11_Witness ==
  /\ Len(requests) = 1
  /\ requests[1] = [Request("play", 0, HandCards[1].ability, game) EXCEPT !.alone = TRUE]
  /\ outbox = << PlayMutation(2, Null) >>

\* C12: a request is settled only by a candidate submitted after it was
\* issued: the task that opens a request leaves it pending with the
\* candidate slot empty, whatever an earlier click left there, and a
\* request leaves the pending status only in a task that submits a
\* candidate, a resolved one holding that very candidate.
C12_SettledOnlyByLaterCandidate ==
  [][\A k \in DOMAIN requests' :
       IF k \notin DOMAIN requests
       THEN requests'[k].status = "pending" /\ target' = Null
       ELSE (Pending(k) /\ requests'[k].status # "pending") =>
              /\ Submitting
              /\ requests'[k].status = "resolved" => requests'[k].response = submitted']_vars

\* A Spell request was rejected by a click on a Human creature, which the
\* slot kept; the CreatureOfType Human prompt accepted afterwards pends.
C12_Witness ==
  /\ tasks = MaxTasks - 4
  /\ Len(requests) = 2
  /\ requests[1].status = "rejected"
  /\ requests[1].ability.required_target.kind = "Spell"
  /\ requests[2].status = "pending"
  /\ requests[2].ability.required_target = ReqOfType("CreatureOfType", "Human")
  /\ target = Null

\* C13: only a candidate submission or the issue of a new request touches
\* a request: a task that neither submits a candidate nor opens a request
\* (a snapshot, a prompt, a narration, a dialog answer or a click that
\* sends at once) leaves every request as it was, so a pending request
\* that is sent no candidate pends for good.
C13_OnlyCandidatesSettle ==
  [][(~Submitting /\ Len(requests') = Len(requests)) => requests' = requests]_vars

\* A request has outlived a snapshot, a prompt and a narration.
C13_Witness ==
  /\ Len(requests) = 1
  /\ requests[1].status = "pending"
  /\ requests[1].game # game
  /\ turnMessage # NoTurnMessage
  /\ mandatoryOpen
  /\ tasks = MaxTasks - 4

\* The origin of the request a response mutation answers.
OriginOf(m) ==
  IF m.op = "lobby.respond_optional_ability" THEN "optional" ELSE "mandatory"

\* A Cancel on an optional prompt whose ability would have needed a target.
Declines == optionalNo /\ optionalAbility.required_target.kind # "None"

\* Mutation m goes out in the task that accepts a prompt whose ability
\* requires no target, with target null and without a request.
AnsweredAtOnce(m) ==
  LET a == IF OriginOf(m) = "optional" THEN optionalAbility ELSE mandatoryAbility
  IN /\ a.required_target.kind = "None"
     /\ a.id = m.ability_id
     /\ m.target = Null
     /\ requests' = requests

\* Mutation m goes out in the task in which the request opened for the
\* very ability it names resolved, and carries that request's candidate.
AnsweredOnResolve(m) ==
  \E k \in DOMAIN requests :
     /\ Pending(k)
     /\ requests'[k].status = "resolved"
     /\ requests[k].origin = OriginOf(m)
     /\ requests[k].ability.id = m.ability_id
     /\ requests'[k].response = m.target
     /\ m.target = submitted'

\* C14: every lobby.respond_optional_ability / respond_mandatory_ability
\* mutation of an accepted prompt is sent either at once with target null
\* (requirement None) or in the task in which the target request opened
\* for that ability resolved, carrying the resolved target.
C14_ResponseAfterOwnRequest ==
  [][~Declines =>
       \A j \in DOMAIN outbox' :
          outbox'[j].op \in {"lobby.respond_optional_ability",
                             "lobby.respond_mandatory_ability"}
            => AnsweredAtOnce(outbox'[j]) \/ AnsweredOnResolve(outbox'[j])]_vars

\* C15: a request opened by accepting a mandatory prompt while no other
\* request is pending is settled by the first candidate submitted after
\* acceptance as its own requirement decides: it resolves with the
\* candidate where the requirement accepts it and is rejected where the
\* requirement refuses it, whatever requests were settled before (the
\* store's subscribers being served, i.e. no earlier fault).
C15_MandatoryRequestIsFresh ==
  [][\A k \in DOMAIN requests :
       (Pending(k) /\ requests[k].origin = "mandatory" /\ requests[k].alone
          /\ ~queueStuck /\ Submitting) =>
         LET own == SearchOutcome(requests[k].ability, requests[k].game, submitted')
         IN /\ own = "resolve" =>
                 requests'[k].status = "resolved" /\ requests'[k].response = submitted'
            /\ own = "reject" => requests'[k].status = "rejected"]_vars

\* A click on a hand card, a card in play or a card of a spell zone.
CardClick ==
  \/ \E i \in HandIndices : playCard(i)
  \/ \E p \in Seated : \E i \in PlayIndices(p) : actionCard(p, i)
  \/ \E p \in Seated : \E i \in SpellIndices(p) : actionSpell(p, i)

\* Every mutation of the task is the one a request resolved in this task
\* was waiting to send.
OnlyAwaitedMutations ==
  \A j \in DOMAIN outbox' :
     \E k \in DOMAIN requests :
        /\ Pending(k)
        /\ requests'[k].status = "resolved"
        /\ outbox'[j].target = requests'[k].response

\* C16: while a request is pending every click on a card (hand, play
\* zone, spell zone) is a candidate submission: it passes a candidate to
\* the slot, opens no request and sends no mutation of its own.
C16_ClicksAreCandidatesWhilePending ==
  [][((\E k \in DOMAIN requests : Pending(k)) /\ CardClick) =>
       /\ Submitting
       /\ Len(requests') = Len(requests)
       /\ OnlyAwaitedMutations]_vars

\* C17: whenever a candidate makes a pending request fail, on whatever
\* flow the request was opened, the task raises an error notice, sends
\* nothing for that request, and tears the request down: with no other
\* request left pending the awaiting-target flag is off again.
C17_RejectionIsSurfaced ==
  [][\A k \in DOMAIN requests :
       (Pending(k) /\ requests'[k].status = "rejected") =>
         /\ "error" \in notices'
         /\ ~requests'[k].sent
         /\ (\A j \in DOMAIN requests' : requests'[j].status # "pending")
              => ~searchingForTarget']_vars

\* The requests the task resolved.
ResolvedNow == {k \in DOMAIN requests : Pending(k) /\ requests'[k].status = "resolved"}

\* C18: whenever the facade rejects a mutation sent once the target of
\* its action was settled, the task that sent it raises a notice for the
\* failure, has sent one mutation per completed solicitation (nothing is
\* sent a second time) and opens no request.
C18_RefusalIsSurfacedNotRetried ==
  [][(refused' # {} /\ ~Declines) =>
       /\ "remote error" \in notices'
       /\ Len(outbox') = IF ResolvedNow = {} THEN 1 ELSE Cardinality(ResolvedNow)
       /\ Len(requests') = Len(requests)]_vars

\* The four surfaces a pushed message may write, and what no push writes.
BrokerState == << requests, target, searchingForTarget >>

\* C19: every pushed message writes the one surface of its variant:
\* Updated the snapshot, AskExecuteAbility the optional-prompt store,
\* MandatoryExecuteAbility the mandatory-prompt store, TurnMessages the
\* narration; the other three surfaces, the requests, the candidate slot
\* and the awaiting-target flag stay as they were.
C19_PushWritesOneSurface ==
  [][/\ \A g \in Snapshots : updated(g) =>
          /\ game' = g
          /\ UNCHANGED << askOptionalAbility, mandatoryStore, turnMessage, BrokerState >>
     /\ \A a \in OptionalAbilities : askExecuteAbility(a) =>
          /\ askOptionalAbility' = a
          /\ UNCHANGED << game, mandatoryStore, turnMessage, BrokerState >>
     /\ \A a \in MandatoryAbilities : askMandatoryAbility(a) =>
          /\ mandatoryStore' = a
          /\ UNCHANGED << game, askOptionalAbility, turnMessage, BrokerState >>
     /\ \A m \in TurnMessages : turnMessageReceived(m) =>
          /\ turnMessage' = m
          /\ UNCHANGED << game, askOptionalAbility, mandatoryStore, BrokerState >>]_vars

\* One message of each variant has arrived over a request that still
\* pends with its slot empty.
C19_Witness ==
  /\ tasks = MaxTasks - 5
  /\ Len(requests) = 1
  /\ requests[1].status = "pending"
  /\ requests[1].game # game
  /\ target = Null
  /\ searchingForTarget
  /\ askOptionalAbility # NoAbility
  /\ mandatoryStore # NoAbility
  /\ turnMessage # NoTurnMessage

\* C20: the snapshot changes only in the task of an Updated push, which
\* puts the pushed snapshot in its place; opening a request, submitting a
\* candidate and settling a request leave both the current snapshot and
\* the snapshot each request reads as they were.
C20_SnapshotOnlyReplacedByUpdated ==
  [][/\ game' # game => \E g \in Snapshots : updated(g) /\ game' = g
     /\ \A k \in DOMAIN requests : requests'[k].game = requests[k].game
     /\ \A k \in DOMAIN requests' \ DOMAIN requests : requests'[k].game = game]_vars

\* A request was resolved by a card read out of a snapshot with an attack
\* in it, and the snapshot still holds the attack.
C20_Witness ==
  /\ Len(requests) = 1
  /\ requests[1].status = "resolved"
  /\ requests[1].ability.required_target.kind = "EnemyCardInCombat"
  /\ requests[1].response = CardTarget(1, "Play", 0)
  /\ requests[1].game = G1
  /\ game = G1

\* The six requirement variants the subscriber and waitForTarget name.
Recognised(rt) ==
  rt.kind \in {"None", "EnemyCardOrPlayer", "EnemyCardInCombat", "Spell",
               "CardOfType", "CreatureOfType"}

\* C21: a pending request whose requirement is none of the recognised
\* variants (a missing requirement included) accepts no candidate, and
\* every candidate submitted to it produces an error: the request is
\* rejected, it is never left pending as if nothing had been submitted.
C21_UnrecognisedAlwaysRejects ==
  [][\A k \in DOMAIN requests :
       (Pending(k) /\ ~Recognised(requests[k].ability.required_target)
          /\ Submitting /\ ~queueStuck /\ ~fault')
         => requests'[k].status = "rejected"]_vars

\* Request k is pending with a requirement of the given kind and the task
\* submits a candidate.
Offered(k, kind) ==
  Pending(k) /\ requests[k].ability.required_target.kind = kind /\ Submitting

Accepted(k) ==
  requests'[k].status = "resolved" /\ requests'[k].response = submitted'

Rejected(k) == requests'[k].status = "rejected"

\* C22: for a pending EnemyCardInCombat request a Card candidate is
\* accepted if and only if its (pile, card_index, player_index) equals
\* the attacker of some entry of the snapshot's attack list; every other
\* Card candidate (all of them when the list is empty) and every Player
\* candidate is rejected.
C22_CombatAcceptsAttackersOnly ==
  [][\A k \in DOMAIN requests :
       Offered(k, "EnemyCardInCombat") =>
         IF isCard(submitted') /\ IsAttacker(game, submitted')
         THEN Accepted(k)
         ELSE Rejected(k)]_vars

\* C23: for a pending CardOfType(t) request a Card candidate is accepted
\* if and only if the card found at (player_index, pile, card_index) in
\* the snapshot has declared type t, and for CreatureOfType(c) if and only
\* if its creature subtype is c, whichever seat owns the card.
C23_TypeRequestsAcceptByLookup ==
  [][\A k \in DOMAIN requests :
       ((Offered(k, "CardOfType") \/ Offered(k, "CreatureOfType")) /\ isCard(submitted'))
         => (Accepted(k)
               <=> Satisfies(requests[k].ability.required_target, game, submitted'))]_vars

\* C24: for a pending Spell request a Card candidate is accepted if and
\* only if its pile is the spell zone; a Card candidate of the Hand or
\* Play pile and every Player candidate is rejected.
C24_SpellAcceptsSpellZoneOnly ==
  [][\A k \in DOMAIN requests :
       Offered(k, "Spell") =>
         IF isCard(submitted') /\ submitted'.pile = "Spell"
         THEN Accepted(k)
         ELSE Rejected(k)]_vars

\* C25: for a pending EnemyCardOrPlayer request every Player candidate is
\* accepted, whatever its seat, and every Card candidate is rejected.
C25_PlayersAcceptedCardsRejected ==
  [][\A k \in DOMAIN requests :
       Offered(k, "EnemyCardOrPlayer") =>
         IF isPlayer(submitted') THEN Accepted(k) ELSE Rejected(k)]_vars

\* C26: the awaiting-target flag is true only while a request is pending:
\* with every request resolved or rejected the flag is false, so a click
\* on a card in play starts an action again.
C26_FlagOnlyWhilePending ==
  searchingForTarget => \E k \in DOMAIN requests : Pending(k)

\* The mutation that answers a prompt of the given origin.
ResponseOp(origin) ==
  IF origin = "optional" THEN "lobby.respond_optional_ability"
  ELSE "lobby.respond_mandatory_ability"

\* C27: when the request opened by accepting a prompt resolves, the
\* response mutation sent for it carries the ability_id of the prompt
\* whose requirement the request was opened with, whatever prompts were
\* pushed while the target was awaited.
C27_ResponseNamesSolicitingPrompt ==
  [][\A k \in DOMAIN requests :
       (Pending(k) /\ requests'[k].status = "resolved"
          /\ requests[k].origin \in {"optional", "mandatory"})
         => \E j \in DOMAIN outbox' :
               /\ outbox'[j].op = ResponseOp(requests[k].origin)
               /\ outbox'[j].target = requests'[k].response
               /\ outbox'[j].ability_id = requests[k].ability.id]_vars

\* C28: each initiating click (a hand card, an own card in play, a
\* prompt's Continue) leads to at most one mutation, however many
\* candidates follow: a task sends one mutation per request it resolves
\* and nothing else when it submits a candidate, nothing when it opens a
\* request, at most one when it does neither; and a request that is
\* settled stays as it was settled, so it is never answered again.
C28_OneMutationPerClick ==
  [][/\ Len(outbox') <= IF Submitting THEN Cardinality(ResolvedNow)
                        ELSE IF Len(requests') > Len(requests) THEN 0
                        ELSE 1
     /\ \A k \in DOMAIN requests :
          ~Pending(k) =>
            /\ requests'[k].status = requests[k].status
            /\ requests'[k].sent = requests[k].sent
            /\ requests'[k].response = requests[k].response]_vars

\* A request was resolved and answered, and two more candidates were
\* submitted afterwards without anything being sent.
C28_Witness ==
  /\ Len(requests) = 1
  /\ requests[1].status = "resolved"
  /\ requests[1].sent
  /\ Truthy(submitted)
  /\ outbox = << >>
  /\ tasks = MaxTasks - 4

\* A click on a card of another seat's play zone or spell zone.
ForeignClick ==
  \E p \in Seated \ {SelfIndex} :
     \/ \E i \in PlayIndices(p) : actionCard(p, i)
     \/ \E i \in SpellIndices(p) : actionSpell(p, i)

\* A click on a card of the Player component of the local seat.
OwnClick ==
  \/ \E i \in PlayIndices(SelfIndex) : actionCard(SelfIndex, i)
  \/ \E i \in SpellIndices(SelfIndex) : actionSpell(SelfIndex, i)

\* C29: with the awaiting-target flag false a click on a card of another
\* player's play or spell zone sends no mutation and opens no request;
\* a click on a Player component that opens a request or sends a mutation
\* in normal mode is a click on a card of the local player.
C29_OnlyOwnCardsStartActions ==
  [][/\ (ForeignClick /\ ~searchingForTarget) =>
          outbox' = << >> /\ requests' = requests
     /\ ((ForeignClick \/ OwnClick) /\ ~searchingForTarget
           /\ (Len(requests') > Len(requests) \/ outbox' # << >>))
          => OwnClick]_vars

\* One task after the page was mounted nothing has changed: the task was
\* a click on the other seat's card, in normal mode.
C29_Witness ==
  /\ tasks = MaxTasks - 1
  /\ game = G3
  /\ requests = << >>
  /\ outbox = << >>
  /\ ~Truthy(submitted)
  /\ ~searchingForTarget

\* What Continue sends for a prompt whose ability needs no target.
AcceptanceOf(a) == OptionalMutation(a, Null)

\* C30: a Cancel on an optional prompt opens no request and sends exactly
\* one lobby.respond_optional_ability with target null whose response
\* field marks a decline: the mutation differs from the one an acceptance
\* of the same prompt without a target sends.
C30_DeclineIsMarked ==
  [][optionalNo =>
       /\ requests' = requests
       /\ Len(outbox') = 1
       /\ outbox'[1].op = "lobby.respond_optional_ability"
       /\ outbox'[1].target = Null
       /\ outbox'[1].response # AcceptanceOf(optionalAbility).response]_vars


====
